---- MODULE Spec2Model ----
(***************************************************************************)
(* Model of the massage-therapist filter: massage_filter.py (command line, *)
(* entry "cli") and massage_filter_app.py (interactive form, entry "app"). *)
(*                                                                         *)
(* One run is load -> resolve -> filter -> sort -> reorder; the output of  *)
(* a run can be fed back as the input of a second run.                     *)
(*                                                                         *)
(* Representation.                                                         *)
(*  - A text is a sequence of one-character strings, so that lower-casing, *)
(*    substring search, splitting and stripping are computed, not assumed. *)
(*  - A header is [low, cap]: its lower-case form and its casing pattern   *)
(*    (cap = 0: the header is already lower-case; cap = 1: "Price";        *)
(*    cap = 2: "PRICE").  str.lower() maps every casing to cap = 0.        *)
(*  - A cell is missing (NaN), a text, a number or a boolean.              *)
(*  - A row is a function from the dataset's headers to cells; a row of a  *)
(*    frame carries its index label idx (pandas keeps it through df[mask]  *)
(*    and sort_values).                                                    *)
(***************************************************************************)
EXTENDS Integers, Sequences, FiniteSets, TLC

VARIABLES
    entry,      \* "cli" (massage_filter.py) or "app" (massage_filter_app.py)
    headers,    \* df.columns of the loaded dataset
    rows,       \* the rows of df, in source order
    req,        \* the filter arguments / form fields
    sortReq,    \* the keys of --sort / "Sort by", each with its '-' marker
    pc,         \* position of the run
    run,        \* 1: first run, 2: run on the first run's output
    mapping,    \* autodetect_columns(df)
    result,     \* the frame being filtered, sorted and reordered
    by,         \* resolved sort columns
    ascending,  \* directions handed to sort_values
    warnings,   \* sort keys named on stderr
    outHeaders, \* columns of the output frame
    first       \* what the first run produced (kept for the second run)

vars == <<entry, headers, rows, req, sortReq, pc, run, mapping, result, by,
          ascending, warnings, outHeaders, first>>

----------------------------------------------------------------------------
(* Generic helpers                                                         *)

Range(s) == {s[i] : i \in DOMAIN s}

Max(S) == CHOOSE m \in S : \A n \in S : n <= m

Min(S) == CHOOSE m \in S : \A n \in S : m <= n

SeqsUpTo(S, n) == UNION {[1..k -> S] : k \in 0..n}

Perms(n) == {p \in [1..n -> 1..n] : \A i, j \in 1..n : i # j => p[i] # p[j]}

RECURSIVE SelectIdx(_, _)
\* the members of 1..n that satisfy mask, in increasing order
SelectIdx(mask, n) ==
    IF n = 0 THEN <<>>
    ELSE IF mask[n] THEN Append(SelectIdx(mask, n - 1), n)
         ELSE SelectIdx(mask, n - 1)

----------------------------------------------------------------------------
(* Texts: str.lower(), `x in s`, str.strip(), re.split                     *)

LowerChar(c) ==
    CASE c = "A" -> "a" [] c = "B" -> "b" [] c = "D" -> "d" [] c = "N" -> "n"
      [] c = "S" -> "s" [] c = "T" -> "t" [] c = "Y" -> "y" [] c = "E" -> "e"
      [] c = "R" -> "r" [] c = "M" -> "m" [] c = "F" -> "f" [] c = "W" -> "w"
      [] OTHER -> c

\* s.lower()
Lower(s) == [i \in DOMAIN s |-> LowerChar(s[i])]

\* n in h  (plain substring test)
IsSubstring(n, h) ==
    \E i \in 0..(Len(h) - Len(n)) : \A j \in 1..Len(n) : h[i + j] = n[j]

\* s.strip()
Strip(s) ==
    IF \A i \in DOMAIN s : s[i] = " " THEN <<>>
    ELSE SubSeq(s, Min({i \in DOMAIN s : s[i] # " "}),
                   Max({i \in DOMAIN s : s[i] # " "}))

RECURSIVE ReSplit(_)
\* re.split(r"[;,]", s): the pieces between separators, empty ones included
ReSplit(s) ==
    IF \A i \in DOMAIN s : s[i] \notin {",", ";"} THEN <<s>>
    ELSE LET k == Min({i \in DOMAIN s : s[i] \in {",", ";"}})
         IN  <<SubSeq(s, 1, k - 1)>> \o ReSplit(SubSeq(s, k + 1, Len(s)))

----------------------------------------------------------------------------
(* Values: cells of the frame and values of the request                    *)

NoneV == [k |-> "none"]                 \* Python None (an option not given)
NaN == [k |-> "nan"]                    \* an empty cell, as the loader reads it
Txt(s) == [k |-> "str", s |-> s]
Num(n) == [k |-> "num", n |-> n]
Bool(b) == [k |-> "bool", b |-> b]

\* bool(v): Python truthiness of an argument or form field
Truthy(v) ==
    CASE v.k = "none" -> FALSE
      [] v.k = "str" -> v.s # <<>>
      [] v.k = "num" -> v.n # 0
      [] v.k = "bool" -> v.b

Digit == {"0", "1", "2", "3", "4", "5", "6", "7", "8", "9"}

DigitVal(c) ==
    CASE c = "0" -> 0 [] c = "1" -> 1 [] c = "2" -> 2 [] c = "3" -> 3
      [] c = "4" -> 4 [] c = "5" -> 5 [] c = "6" -> 6 [] c = "7" -> 7
      [] c = "8" -> 8 [] c = "9" -> 9

DigitChar(d) == <<"0", "1", "2", "3", "4", "5", "6", "7", "8", "9">>[d + 1]

RECURSIVE ParseNat(_)
ParseNat(s) ==
    IF s = <<>> THEN 0
    ELSE 10 * ParseNat(SubSeq(s, 1, Len(s) - 1)) + DigitVal(s[Len(s)])

RECURSIVE FormatNat(_)
FormatNat(n) ==
    IF n < 10 THEN <<DigitChar(n)>>
    ELSE Append(FormatNat(n \div 10), DigitChar(n % 10))

\* astype(str) on one cell (numbers of the model are non-negative integers)
AsStr(c) ==
    CASE c.k = "str" -> c.s
      [] c.k = "nan" -> <<"n", "a", "n">>
      [] c.k = "bool" -> IF c.b THEN <<"T", "r", "u", "e">>
                                ELSE <<"F", "a", "l", "s", "e">>
      [] c.k = "num" -> FormatNat(c.n)

\* ToNumeric done wrong: text that is no number becomes 0 instead of NaN
ToNumericZero(c) ==
    CASE c.k = "num" -> c
      [] c.k = "bool" -> Num(IF c.b THEN 1 ELSE 0)
      [] c.k = "str" -> IF c.s # <<>> /\ \A i \in DOMAIN c.s : c.s[i] \in Digit
                        THEN Num(ParseNat(c.s)) ELSE Num(0)
      [] OTHER -> Num(0)

\* pd.to_numeric(column, errors="coerce") on one cell
ToNumeric(c) ==
    CASE c.k = "num" -> c
      [] c.k = "bool" -> Num(IF c.b THEN 1 ELSE 0)
      [] c.k = "str" -> IF c.s # <<>> /\ \A i \in DOMAIN c.s : c.s[i] \in Digit
                        THEN Num(ParseNat(c.s)) ELSE NaN
      [] OTHER -> NaN

\* Series.ge(b) / Series.le(b) on one coerced cell: NaN compares False
Ge(c, b) == c.k = "num" /\ c.n >= b

Le(c, b) == c.k = "num" /\ c.n <= b

----------------------------------------------------------------------------
(* Column resolver                                                         *)

CANON == <<"name", "city", "neighborhood", "price", "currency", "rating",
           "reviews", "modalities", "gender", "languages", "mobileservice",
           "availability", "yearsexperience", "credentials", "bio">>

Canon == Range(CANON)

ALIASES ==
    [c \in Canon |->
        CASE c = "name" -> <<"name", "therapist", "provider">>
          [] c = "city" -> <<"city", "location_city", "town">>
          [] c = "neighborhood" -> <<"neighborhood", "area", "district", "borough">>
          [] c = "price" -> <<"price", "rate", "fee", "session_cost">>
          [] c = "currency" -> <<"currency", "price_currency">>
          [] c = "rating" -> <<"rating", "score", "stars">>
          [] c = "reviews" -> <<"reviews", "review_count">>
          [] c = "modalities" -> <<"modalities", "techniques", "specialties", "services">>
          [] c = "gender" -> <<"gender", "therapist_gender">>
          [] c = "languages" -> <<"languages", "language">>
          [] c = "mobileservice" -> <<"mobileservice", "mobile", "in_home", "house_call">>
          [] c = "availability" -> <<"availability", "hours", "schedule">>
          [] c = "yearsexperience" -> <<"yearsexperience", "experience_years", "yrs_exp", "experience">>
          [] c = "credentials" -> <<"credentials", "license", "certifications">>
          [] c = "bio" -> <<"bio", "about", "description", "summary">>]

Hdr(low, cap) == [low |-> low, cap |-> cap]

\* c.lower() of a header
HLower(h) == h.low

\* None as a value of the mapping
Unresolved == [low |-> "", cap |-> 0]

\* ColsLookup done wrong: the first of two headers with one lower-case form wins
ColsLookupFirstWins(hs) ==
    [l \in {HLower(hs[i]) : i \in DOMAIN hs} |->
        hs[Min({i \in DOMAIN hs : HLower(hs[i]) = l})]]

\* cols = {c.lower(): c for c in df.columns}: a later header overwrites
ColsLookup(hs) ==
    [l \in {HLower(hs[i]) : i \in DOMAIN hs} |->
        hs[Max({i \in DOMAIN hs : HLower(hs[i]) = l})]]

\* the inner loop: the first alias that is a key of cols, else None
FirstFound(aliases, cols) ==
    IF \E i \in DOMAIN aliases : aliases[i] \in DOMAIN cols
    THEN cols[aliases[Min({i \in DOMAIN aliases : aliases[i] \in DOMAIN cols})]]
    ELSE Unresolved

autodetect_columns(hs) ==
    LET cols == ColsLookup(hs)
    IN  [c \in Canon |-> FirstFound(ALIASES[c], cols)]

\* col(canon) / mapping.get(k) as a condition: a header was found
Resolved(m, c) == m[c] # Unresolved

----------------------------------------------------------------------------
(* Request helpers                                                         *)

\* split_list(s): the stripped non-empty pieces
split_list(v) ==
    IF ~Truthy(v) THEN <<>>
    ELSE LET parts == ReSplit(v.s)
             keep == [i \in DOMAIN parts |-> Strip(parts[i]) # <<>>]
             idx == SelectIdx(keep, Len(parts))
         IN  [i \in DOMAIN idx |-> Strip(parts[idx[i]])]

\* contains_all(haystack, needles)
contains_all(haystack, needles) ==
    LET h == Lower(haystack)
    IN  \A i \in DOMAIN needles : IsSubstring(Lower(needles[i]), h)

\* Series.str.contains(pat, na=False): pat is a regular expression (regex=True
\* is the default); within the model's alphabet only "." is special and
\* matches any one character
RegexSearch(pat, s) ==
    \E i \in 0..(Len(s) - Len(pat)) :
        \A j \in 1..Len(pat) : pat[j] = "." \/ s[i + j] = pat[j]

----------------------------------------------------------------------------
(* Predicate pipeline: the mask                                            *)

\* df[h].dtype: a column of booleans is bool, a column of numbers and
\* empty cells is numeric, anything else (or no row at all) is object
Dtype(rws, h) ==
    IF rws = <<>> THEN "object"
    ELSE IF \A i \in DOMAIN rws : rws[i][h].k = "bool" THEN "bool"
    ELSE IF \A i \in DOMAIN rws : rws[i][h].k \in {"num", "nan"} THEN "number"
    ELSE "object"

TRUTHY_TEXT == {<<"t", "r", "u", "e">>, <<"y", "e", "s">>, <<"y">>, <<"1">>}

\* the mobile-service rule on one cell of column h
MobileTruthy(rws, h, c) ==
    IF Dtype(rws, h) = "object" THEN Lower(AsStr(c)) \in TRUTHY_TEXT
    ELSE CASE c.k = "bool" -> c.b         \* astype(bool)
           [] c.k = "num" -> c.n # 0
           [] c.k = "nan" -> TRUE         \* bool(float("nan")) is True

\* whether a numeric bound takes part: `is not None` on the command line,
\* truthiness of the number field (0 is the form's default) in the form
NumActive(e, v) == IF e = "cli" THEN v # NoneV ELSE Truthy(v)

CityOk(m, rq, row) ==
    (Truthy(rq.city) /\ Resolved(m, "city"))
        => Lower(AsStr(row[m["city"]])) = Lower(rq.city.s)

NeighborhoodOk(m, rq, row) ==
    (Truthy(rq.neighborhood) /\ Resolved(m, "neighborhood"))
        => RegexSearch(Lower(rq.neighborhood.s),
                       Lower(AsStr(row[m["neighborhood"]])))

GenderOk(m, rq, row) ==
    (Truthy(rq.gender) /\ Resolved(m, "gender"))
        => Lower(AsStr(row[m["gender"]])) = Lower(rq.gender.s)

PriceOk(e, m, rq, row) ==
    Resolved(m, "price") =>
        LET price == ToNumeric(row[m["price"]])
        IN  /\ NumActive(e, rq.price_min) => Ge(price, rq.price_min.n)
            /\ NumActive(e, rq.price_max) => Le(price, rq.price_max.n)

\* rating-min, reviews-min and years-min: one shape, three fields
MinOk(e, m, v, canon, row) ==
    (NumActive(e, v) /\ Resolved(m, canon))
        => Ge(ToNumeric(row[m[canon]]), v.n)

MobileOk(m, rq, rws, row) ==
    (Truthy(rq.mobile) /\ Resolved(m, "mobileservice"))
        => MobileTruthy(rws, m["mobileservice"], row[m["mobileservice"]])

\* modalities and languages: ALL tokens required
AllOk(m, v, canon, row) ==
    (split_list(v) # <<>> /\ Resolved(m, canon))
        => contains_all(AsStr(row[m[canon]]), split_list(v))

\* req_days: the tokens of --available, lower-cased
ReqDays(v) == LET d == split_list(v) IN [i \in DOMAIN d |-> Lower(Strip(d[i]))]

AvailabilityOk(m, rq, row) ==
    (ReqDays(rq.available) # <<>> /\ Resolved(m, "availability"))
        => LET s == Lower(AsStr(row[m["availability"]]))
               days == ReqDays(rq.available)
           IN  \E i \in DOMAIN days : IsSubstring(days[i], s)

\* text_ok(row): the block is built from the resolved ones of bio and
\* credentials, each preceded by a space
TextBlock(m, row) ==
    (IF Resolved(m, "bio") THEN <<" ">> \o AsStr(row[m["bio"]]) ELSE <<>>)
    \o (IF Resolved(m, "credentials")
        THEN <<" ">> \o AsStr(row[m["credentials"]]) ELSE <<>>)

TextOk(m, rq, row) ==
    split_list(rq.text) # <<>>
        => contains_all(TextBlock(m, row), split_list(rq.text))

\* the value of mask at row i once every `mask &= ...` has run
RowMask(e, m, rq, rws, i) ==
    LET row == rws[i]
    IN  /\ CityOk(m, rq, row)
        /\ NeighborhoodOk(m, rq, row)
        /\ GenderOk(m, rq, row)
        /\ PriceOk(e, m, rq, row)
        /\ MinOk(e, m, rq.rating_min, "rating", row)
        /\ MinOk(e, m, rq.reviews_min, "reviews", row)
        /\ MinOk(e, m, rq.years_min, "yearsexperience", row)
        /\ MobileOk(m, rq, rws, row)
        /\ AllOk(m, rq.modalities, "modalities", row)
        /\ AllOk(m, rq.languages, "languages", row)
        /\ AvailabilityOk(m, rq, row)
        /\ TextOk(m, rq, row)

\* SelectRows done wrong: the kept rows come out last first
SelectRowsReversed(rws, mask) ==
    LET idx == SelectIdx(mask, Len(rws))
    IN  [k \in DOMAIN idx |->
            [idx |-> idx[Len(idx) + 1 - k], cells |-> rws[idx[Len(idx) + 1 - k]]]]

\* df[mask].copy(): the rows where mask is True, each with its index label
SelectRows(rws, mask) ==
    LET idx == SelectIdx(mask, Len(rws))
    IN  [k \in DOMAIN idx |-> [idx |-> idx[k], cells |-> rws[idx[k]]]]

FilterFrame(e, m, rq, rws) ==
    SelectRows(rws, [i \in DOMAIN rws |-> RowMask(e, m, rq, rws, i)])

----------------------------------------------------------------------------
(* Sorting                                                                 *)

\* a sort key as typed: its name and whether it starts with "-"
Key(name, desc) == [name |-> name, desc |-> desc]

NoKeys == [by |-> <<>>, ascending |-> <<>>, warnings |-> <<>>]

RECURSIVE ResolveKeys(_, _, _, _)
\* the loop over keys: by, ascending and the warnings written to stderr
ResolveKeys(e, keys, cols, m) ==
    IF keys = <<>> THEN NoKeys
    ELSE LET acc == ResolveKeys(e, SubSeq(keys, 1, Len(keys) - 1), cols, m)
             k == keys[Len(keys)]
             key == k.name
             key_lower == HLower(key)
             direct == key \in Range(cols)
             canon == key_lower \in Canon /\ Resolved(m, key_lower)
             matches == {i \in DOMAIN cols : HLower(cols[i]) = key_lower}
         IN  IF e = "cli"
             THEN IF direct
                  THEN [acc EXCEPT !.by = Append(@, key),
                                   !.ascending = Append(@, ~k.desc)]
                  ELSE IF canon
                  THEN [acc EXCEPT !.by = Append(@, m[key_lower]),
                                   !.ascending = Append(@, ~k.desc)]
                  ELSE IF matches # {}
                  THEN [acc EXCEPT !.by = Append(@, cols[Min(matches)]),
                                   !.ascending = Append(@, ~k.desc)]
                  ELSE [acc EXCEPT !.warnings = Append(@, key)]
             ELSE \* the form: no case-insensitive fallback, no warning,
                  \* and the direction is appended whether or not a column was
                  IF direct
                  THEN [acc EXCEPT !.by = Append(@, key),
                                   !.ascending = Append(@, ~k.desc)]
                  ELSE IF canon
                  THEN [acc EXCEPT !.by = Append(@, m[key_lower]),
                                   !.ascending = Append(@, ~k.desc)]
                  ELSE [acc EXCEPT !.ascending = Append(@, ~k.desc)]

Sign(n) == IF n < 0 THEN -1 ELSE IF n > 0 THEN 1 ELSE 0

\* KeyCmp done wrong: an empty cell is the lowest value of the key
KeyCmpNaLowest(a, b, asc) ==
    LET up == IF a.k = "nan" /\ b.k = "nan" THEN 0
              ELSE IF a.k = "nan" THEN -1
              ELSE IF b.k = "nan" THEN 1
              ELSE Sign(a.n - b.n)
    IN  IF asc THEN up ELSE -up

\* the order sort_values gives two cells of one key (na_position="last" is
\* the default): -1 when a goes first, 1 when b goes first, 0 for a tie.
\* An empty cell goes after every number whatever the direction.
KeyCmp(a, b, asc) ==
    IF a.k = "nan" /\ b.k = "nan" THEN 0
    ELSE IF a.k = "nan" THEN 1
    ELSE IF b.k = "nan" THEN -1
    ELSE IF asc THEN Sign(a.n - b.n) ELSE Sign(b.n - a.n)

\* rows compared key by key: the first key that tells them apart decides
LexCmp(r1, r2, cols, asc) ==
    LET diff == {k \in DOMAIN cols :
                    KeyCmp(r1.cells[cols[k]], r2.cells[cols[k]], asc[k]) # 0}
    IN  IF diff = {} THEN 0
        ELSE LET k == Min(diff)
             IN  KeyCmp(r1.cells[cols[k]], r2.cells[cols[k]], asc[k])

\* several keys: lexsort_indexer, a stable sort (kind is not consulted)
LexsortOrders(frame, cols, asc) ==
    {p \in Perms(Len(frame)) :
        \A i, j \in DOMAIN frame : i < j =>
            LET c == LexCmp(frame[p[i]], frame[p[j]], cols, asc)
            IN  c < 0 \/ (c = 0 /\ p[i] < p[j])}

\* one key: nargsort with kind="quicksort", the default, which promises no
\* order among equal values; the empty cells are appended in frame order
QuicksortOrders(frame, col, asc) ==
    {p \in Perms(Len(frame)) :
        \A i, j \in DOMAIN frame : i < j =>
            LET a == frame[p[i]].cells[col]
                b == frame[p[j]].cells[col]
            IN  /\ KeyCmp(a, b, asc) <= 0
                /\ (a.k = "nan" /\ b.k = "nan") => p[i] < p[j]}

\* result.sort_values(by=by, ascending=ascending): every frame it may return
SortOutcomes(frame, cols, asc) ==
    LET orders == IF Len(cols) > 1 THEN LexsortOrders(frame, cols, asc)
                  ELSE QuicksortOrders(frame, cols[1], asc[1])
    IN  {[k \in DOMAIN frame |-> frame[p[k]]] : p \in orders}

----------------------------------------------------------------------------
(* Column reorder                                                          *)

\* preferred: the mapped headers of the resolved fields, in CANON order
Preferred(m) ==
    LET idx == SelectIdx([i \in DOMAIN CANON |-> Resolved(m, CANON[i])], Len(CANON))
    IN  [i \in DOMAIN idx |-> m[CANON[idx[i]]]]

\* ReorderColumns done wrong: trailing is not filtered against preferred
ReorderColumnsKeepAll(m, cols) == Preferred(m) \o cols

\* preferred + [c for c in result.columns if c not in preferred]
ReorderColumns(m, cols) ==
    LET preferred == Preferred(m)
        idx == SelectIdx([i \in DOMAIN cols |-> cols[i] \notin Range(preferred)],
                         Len(cols))
    IN  preferred \o [i \in DOMAIN idx |-> cols[idx[i]]]

----------------------------------------------------------------------------
(* Inputs of the model: three families of datasets and requests            *)

MaxHeaders == 3     \* headers of a dataset of the resolver family
MaxRows == 2        \* rows of a dataset of the filter family
MaxSortRows == 2    \* rows of a dataset of the sort family

Entries == {"cli", "app"}

\* the request with nothing given
NoRequest ==
    [city |-> NoneV, neighborhood |-> NoneV, gender |-> NoneV,
     modalities |-> NoneV, languages |-> NoneV, text |-> NoneV,
     available |-> NoneV, price_min |-> NoneV, price_max |-> NoneV,
     rating_min |-> NoneV, reviews_min |-> NoneV, years_min |-> NoneV,
     mobile |-> Bool(FALSE)]

TextFields == {"city", "neighborhood", "gender", "modalities", "languages",
               "text", "available"}

NumFields == {"price_min", "price_max", "rating_min", "reviews_min", "years_min"}

\* the form's fields: a text input left alone is "", a number input is 0
FormOf(r) ==
    [f \in DOMAIN r |->
        IF r[f] # NoneV THEN r[f]
        ELSE IF f \in TextFields THEN Txt(<<>>) ELSE Num(0)]

\* --- resolver family: header lists over a pool, one empty row ---

HeaderPool ==
    {Hdr("price", 1), Hdr("price", 0), Hdr("rate", 1), Hdr("fee", 0),
     Hdr("city", 1), Hdr("bio", 1), Hdr("rating", 2), Hdr("notes", 1)}

HeaderLists ==
    {hs \in SeqsUpTo(HeaderPool, MaxHeaders) :
        \A i, j \in DOMAIN hs : i # j => hs[i] # hs[j]}

ResolverInputs ==
    {[headers |-> hs, rows |-> <<[h \in Range(hs) |-> NaN]>>,
      req |-> NoRequest, sort |-> <<>>] : hs \in HeaderLists}

\* --- filter family: three schemas, rows drawn from five sample rows ---

City == Hdr("city", 1)
Area == Hdr("area", 1)
Gender == Hdr("gender", 1)
Fee == Hdr("fee", 1)
Rating == Hdr("rating", 1)
Reviews == Hdr("reviews", 1)
Years == Hdr("experience", 1)
Mobile == Hdr("mobile", 1)
Techniques == Hdr("techniques", 1)
Language == Hdr("language", 1)
Hours == Hdr("hours", 1)
Bio == Hdr("bio", 1)
License == Hdr("license", 1)
Notes == Hdr("notes", 1)

FullSchema == <<Notes, City, Area, Gender, Fee, Rating, Reviews, Years, Mobile,
                Techniques, Language, Hours, Bio, License>>

FilterSchemas == {FullSchema, <<License, Fee, Mobile>>, <<Notes, Rating>>}

SampleRow(city, area, gender, fee, rating, reviews, years, mobile, tech, lang, hours, bio, license) ==
    [h \in Range(FullSchema) |->
        CASE h = City -> city [] h = Area -> area [] h = Gender -> gender
          [] h = Fee -> fee [] h = Rating -> rating [] h = Reviews -> reviews
          [] h = Years -> years [] h = Mobile -> mobile [] h = Techniques -> tech
          [] h = Language -> lang [] h = Hours -> hours [] h = Bio -> bio
          [] h = License -> license [] h = Notes -> Txt(<<"x">>)]

SampleRows ==
    {SampleRow(Txt(<<"B","e","n","d">>), Txt(<<"E","a","s","t">>), Txt(<<"F">>),
               Num(100), Num(48), Num(10), Num(5), Txt(<<"Y","e","s">>),
               Txt(<<"D","e","e","p",","," ","S","t","o","n","e">>),
               Txt(<<"E","N">>), Txt(<<"M","o","n"," ","T","u","e">>),
               Txt(<<"r","m","t">>), Txt(<<"a","b">>)),
     SampleRow(Txt(<<"B","E","N","D">>), Txt(<<"w","e","s","t">>), Txt(<<"m">>),
               Txt(<<"$","9","0">>), NaN, Txt(<<"1","2">>), NaN, Txt(<<"N","o">>),
               Txt(<<"d","e","e","p">>), Txt(<<"e","n",";","f","r">>),
               Txt(<<"s","a","t">>), NaN, Txt(<<"R","M","T">>)),
     SampleRow(NaN, NaN, NaN, NaN, Txt(<<"N","/","A">>), NaN, Txt(<<"t","e","n">>),
               NaN, NaN, NaN, NaN, NaN, NaN),
     SampleRow(Txt(<<"D","e","n","t">>), Txt(<<"E","a","s","t">>), Txt(<<"F">>),
               Num(150), Num(49), Num(3), Num(10), Bool(TRUE),
               Txt(<<"s","t","o","n","e",";","d","e","e","p">>), NaN, NaN,
               Txt(<<"D","e","e","p">>), NaN),
     SampleRow(Txt(<<"B","e","n","d">>), NaN, Txt(<<"f">>),
               Num(90), Num(45), Num(0), Num(0), Bool(FALSE),
               Txt(<<"S","t","o","n","e">>), Txt(<<"F","R">>), Txt(<<"M","o","n">>),
               Txt(<<"a">>), Txt(<<"b">>))}

With(f, v) == [NoRequest EXCEPT ![f] = v]

With2(f, v, g, w) == [NoRequest EXCEPT ![f] = v, ![g] = w]

FilterRequests ==
    {NoRequest,
     With("city", Txt(<<"b","e","n","d">>)),
     With("city", Txt(<<"N","a","N">>)),
     With("neighborhood", Txt(<<"A","S">>)),
     With("neighborhood", Txt(<<"a",".","t">>)),
     With("gender", Txt(<<"f">>)),
     With("price_min", Num(0)),
     With("price_min", Num(95)),
     With("price_max", Num(100)),
     With("rating_min", Num(46)),
     With("reviews_min", Num(0)),
     With("reviews_min", Num(5)),
     With("years_min", Num(1)),
     With("mobile", Bool(TRUE)),
     With("modalities", Txt(<<"s","t","o","n","e",","," ","D","E","E","P">>)),
     With("modalities", Txt(<<"d","e","e","p"," ","s","t","o","n","e">>)),
     With("modalities", Txt(<<" ",",",";">>)),
     With("languages", Txt(<<"e","n">>)),
     With("languages", Txt(<<"f","r",";","E","N">>)),
     With("available", Txt(<<"T","u","e",","," ","S","a","t">>)),
     With("text", Txt(<<"r","m","t">>)),
     With("text", Txt(<<"a","b",",","R","M","T">>)),
     With("text", Txt(<<"a"," ","b">>)),
     With2("city", Txt(<<"B","E","N","D">>), "price_max", Num(100)),
     With2("price_min", Num(95), "price_max", Num(120)),
     With2("mobile", Bool(TRUE), "gender", Txt(<<"F">>)),
     With2("rating_min", Num(46), "text", Txt(<<"d","e","e","p">>)),
     With2("years_min", Num(0), "languages", Txt(<<"e","n">>)),
     [NoRequest EXCEPT !["city"] = Txt(<<"b","e","n","d">>),
                       !["mobile"] = Bool(TRUE),
                       !["modalities"] = Txt(<<"s","t","o","n","e">>),
                       !["reviews_min"] = Num(5)]}

FilterInputs ==
    {[headers |-> hs,
      rows |-> [i \in DOMAIN rs |-> [h \in Range(hs) |-> rs[i][h]]],
      req |-> rq, sort |-> <<>>] :
        hs \in FilterSchemas, rs \in SeqsUpTo(SampleRows, MaxRows),
        rq \in FilterRequests}

\* --- sort family: two numeric columns, a fixed list of sort requests ---

SortSchema == <<Rating, Fee>>

SortRow(fee, rating) == [h \in Range(SortSchema) |-> IF h = Fee THEN fee ELSE rating]

SortSampleRows ==
    {SortRow(Num(1), Num(1)), SortRow(Num(1), Num(2)), SortRow(Num(2), Num(1)),
     SortRow(NaN, Num(1)), SortRow(Num(1), NaN)}

SortRequests ==
    {<<Key(Hdr("price", 0), FALSE)>>,
     <<Key(Hdr("price", 0), TRUE)>>,
     <<Key(Fee, FALSE)>>,
     <<Key(Hdr("fee", 0), TRUE)>>,
     <<Key(Hdr("rating", 2), TRUE)>>,
     <<Key(Hdr("foo", 0), FALSE)>>,
     <<Key(Hdr("price", 0), FALSE), Key(Hdr("rating", 0), TRUE)>>,
     <<Key(Hdr("rating", 0), TRUE), Key(Hdr("price", 0), TRUE)>>,
     <<Key(Hdr("foo", 0), FALSE), Key(Hdr("price", 0), TRUE)>>,
     <<Key(Hdr("price", 0), FALSE), Key(Hdr("foo", 0), TRUE)>>,
     <<Key(Hdr("foo", 0), TRUE), Key(Hdr("price", 0), FALSE),
       Key(Hdr("bar", 0), FALSE), Key(Rating, TRUE)>>}

SortInputs ==
    {[headers |-> SortSchema, rows |-> rs, req |-> NoRequest, sort |-> sr] :
        rs \in SeqsUpTo(SortSampleRows, MaxSortRows), sr \in SortRequests}

Inputs == ResolverInputs \cup FilterInputs \cup SortInputs

----------------------------------------------------------------------------
(* The run                                                                 *)

NoMapping == [c \in Canon |-> Unresolved]

NoFirst == [mapping |-> NoMapping, result |-> <<>>, outHeaders |-> <<>>]

Init ==
    \E e \in Entries, d \in Inputs :
        /\ entry = e
        /\ headers = d.headers
        /\ rows = d.rows
        /\ req = IF e = "app" THEN FormOf(d.req) ELSE d.req
        /\ sortReq = d.sort
        /\ pc = "loaded"
        /\ run = 1
        /\ mapping = NoMapping
        /\ result = <<>>
        /\ by = <<>>
        /\ ascending = <<>>
        /\ warnings = <<>>
        /\ outHeaders = <<>>
        /\ first = NoFirst

\* mapping = autodetect_columns(df)
Resolve ==
    /\ pc = "loaded"
    /\ mapping' = autodetect_columns(headers)
    /\ pc' = "resolved"
    /\ UNCHANGED <<entry, headers, rows, req, sortReq, run, result, by,
                   ascending, warnings, outHeaders, first>>

\* mask = all True; mask &= ... per criterion; result = df[mask].copy()
Filter ==
    /\ pc = "resolved"
    /\ result' = FilterFrame(entry, mapping, req, rows)
    /\ pc' = "filtered"
    /\ UNCHANGED <<entry, headers, rows, req, sortReq, run, mapping, by,
                   ascending, warnings, outHeaders, first>>

\* if args.sort: resolve the keys; if by: result = result.sort_values(...).
\* sort_values raises ValueError when by and ascending differ in length.
Sort ==
    /\ pc = "filtered"
    /\ LET rk == IF sortReq # <<>>
                 THEN ResolveKeys(entry, sortReq, headers, mapping)
                 ELSE NoKeys
       IN  /\ by' = rk.by
           /\ ascending' = rk.ascending
           /\ warnings' = rk.warnings
           /\ IF rk.by # <<>> /\ Len(rk.ascending) # Len(rk.by)
              THEN pc' = "failed" /\ result' = result
              ELSE /\ pc' = "sorted"
                   /\ result' \in IF rk.by # <<>>
                                  THEN SortOutcomes(result, rk.by, rk.ascending)
                                  ELSE {result}
    /\ UNCHANGED <<entry, headers, rows, req, sortReq, run, mapping,
                   outHeaders, first>>

\* result = result[preferred + trailing]
Reorder ==
    /\ pc = "sorted"
    /\ outHeaders' = ReorderColumns(mapping, headers)
    /\ pc' = "done"
    /\ UNCHANGED <<entry, headers, rows, req, sortReq, run, mapping, result,
                   by, ascending, warnings, first>>

\* the output frame of the first run (its columns, its rows, the index
\* counted anew) is the dataset of a second run with the same request
Rerun ==
    /\ pc = "done"
    /\ run = 1
    /\ first' = [mapping |-> mapping, result |-> result, outHeaders |-> outHeaders]
    /\ headers' = outHeaders
    /\ rows' = [i \in DOMAIN result |-> result[i].cells]
    /\ run' = 2
    /\ pc' = "loaded"
    /\ mapping' = NoMapping
    /\ result' = <<>>
    /\ by' = <<>>
    /\ ascending' = <<>>
    /\ warnings' = <<>>
    /\ outHeaders' = <<>>
    /\ UNCHANGED <<entry, req, sortReq>>

Next == Resolve \/ Filter \/ Sort \/ Reorder \/ Rerun

Spec == Init /\ [][Next]_vars

----------------------------------------------------------------------------
(* Vocabulary of the claims                                                *)

\* a criterion is specified: the option was given on the command line; in the
\* form, the field was moved off its default ("" / 0 / unchecked)
Specified(e, v) == IF e = "cli" THEN v \notin {NoneV, Bool(FALSE)} ELSE Truthy(v)

\* the value of a criterion that is not specified
Unset(e, f) ==
    IF f = "mobile" THEN Bool(FALSE)
    ELSE IF e = "cli" THEN NoneV
    ELSE IF f \in TextFields THEN Txt(<<>>) ELSE Num(0)

Criteria == TextFields \cup NumFields \cup {"mobile"}

\* the canonical fields a criterion reads
Target(f) ==
    CASE f = "city" -> {"city"}
      [] f = "neighborhood" -> {"neighborhood"}
      [] f = "gender" -> {"gender"}
      [] f = "modalities" -> {"modalities"}
      [] f = "languages" -> {"languages"}
      [] f = "text" -> {"bio", "credentials"}
      [] f = "available" -> {"availability"}
      [] f \in {"price_min", "price_max"} -> {"price"}
      [] f = "rating_min" -> {"rating"}
      [] f = "reviews_min" -> {"reviews"}
      [] f = "years_min" -> {"yearsexperience"}
      [] f = "mobile" -> {"mobileservice"}

KeptIdx == {result[k].idx : k \in DOMAIN result}

\* the text of a cell as the specification sees it: an empty cell has none
CellText(c) == IF c.k = "nan" THEN <<>> ELSE AsStr(c)

\* a cell that holds no number: empty, or text that is not a number
NonNumeric(c) ==
    \/ c.k = "nan"
    \/ c.k = "str" /\ (c.s = <<>> \/ \E i \in DOMAIN c.s : c.s[i] \notin Digit)

NumberOf(c) == IF c.k = "num" THEN c.n ELSE ParseNat(c.s)

\* criterion f of the request, as the specification's table defines it, on a row
Satisfies(f, row) ==
    LET v == req[f]
        cell(c) == row[mapping[c]]
        low(c) == Lower(CellText(cell(c)))
        tokens == split_list(v)
    IN  CASE f \in {"city", "gender"} -> low(f) = Lower(v.s)
          [] f = "neighborhood" -> IsSubstring(Lower(v.s), low("neighborhood"))
          [] f = "price_min" ->
                ~NonNumeric(cell("price")) /\ NumberOf(cell("price")) >= v.n
          [] f = "price_max" ->
                ~NonNumeric(cell("price")) /\ NumberOf(cell("price")) <= v.n
          [] f = "rating_min" ->
                ~NonNumeric(cell("rating")) /\ NumberOf(cell("rating")) >= v.n
          [] f = "reviews_min" ->
                ~NonNumeric(cell("reviews")) /\ NumberOf(cell("reviews")) >= v.n
          [] f = "years_min" ->
                /\ ~NonNumeric(cell("yearsexperience"))
                /\ NumberOf(cell("yearsexperience")) >= v.n
          [] f = "mobile" ->
                IF cell("mobileservice").k = "bool" THEN cell("mobileservice").b
                ELSE low("mobileservice") \in TRUTHY_TEXT
          [] f \in {"modalities", "languages"} ->
                \A i \in DOMAIN tokens : IsSubstring(Lower(tokens[i]), low(f))
          [] f = "available" ->
                \E i \in DOMAIN tokens :
                    IsSubstring(Lower(tokens[i]), low("availability"))
          [] f = "text" ->
                LET block ==
                        (IF Resolved(mapping, "bio") THEN low("bio") ELSE <<>>)
                        \o <<" ">>
                        \o (IF Resolved(mapping, "credentials")
                            THEN low("credentials") ELSE <<>>)
                IN  \A i \in DOMAIN tokens : IsSubstring(Lower(tokens[i]), block)

\* a criterion none of whose fields is resolved imposes nothing
Imposed(f) ==
    Specified(entry, req[f]) /\ \E c \in Target(f) : Resolved(mapping, c)

----------------------------------------------------------------------------
(* C1 (the claim as stated; the code violates it).  After filtering, a row *)
(* is in the result if and only if it satisfies every criterion that the   *)
(* request specifies: exact match for city and gender, substring for       *)
(* neighborhood, the numeric bounds, mobile truthiness, every token for    *)
(* modalities, languages and text, some day token for availability.        *)
C1_KeptIffAllCriteria ==
    pc = "filtered" =>
        \A i \in DOMAIN rows :
            i \in KeptIdx <=> \A f \in Criteria : Imposed(f) => Satisfies(f, rows[i])

(* C2.  Filtering never reorders or alters rows: the result holds rows of  *)
(* the dataset with their cells unchanged, in their original relative      *)
(* order, and with no criterion specified it holds every row.              *)
C2_FilterKeepsOrderAndContent ==
    (pc = "filtered" \/ (pc \in {"sorted", "done"} /\ sortReq = <<>>)) =>
        /\ \A k \in DOMAIN result :
              /\ result[k].idx \in DOMAIN rows
              /\ result[k].cells = rows[result[k].idx]
        /\ \A k, l \in DOMAIN result : k < l => result[k].idx < result[l].idx
        /\ (\A f \in Criteria : ~Specified(entry, req[f]))
              => [k \in DOMAIN result |-> result[k].cells] = rows

\* C2's case: two rows pass a request that specifies a criterion
C2_Witness ==
    /\ pc = "filtered"
    /\ \E f \in Criteria : Imposed(f)
    /\ Len(result) = 2
    /\ result[1].cells # result[2].cells

(* C3 (the claim as stated; the code violates it).  A criterion whose      *)
(* target fields are all unresolved is a no-op: the result is the result   *)
(* of the same request without that criterion.                             *)
C3_UnresolvedCriterionIsNoOp ==
    pc = "filtered" =>
        \A f \in Criteria :
            (\A c \in Target(f) : ~Resolved(mapping, c)) =>
                result = FilterFrame(entry, mapping,
                                     [req EXCEPT ![f] = Unset(entry, f)], rows)

\* the bounds on a numeric field
BoundsOn(c) ==
    CASE c = "price" -> {"price_min", "price_max"}
      [] c = "rating" -> {"rating_min"}
      [] c = "reviews" -> {"reviews_min"}
      [] c = "yearsexperience" -> {"years_min"}

\* rws with the cell of row i in column h replaced
WithCell(rws, i, h, c) == [rws EXCEPT ![i] = [@ EXCEPT ![h] = c]]

(* C4.  For a numeric field that is resolved, a row whose cell is empty or *)
(* not a number is excluded whenever a bound on the field is specified,    *)
(* whatever its value; with no bound on the field specified, whether the   *)
(* row is kept does not depend on that cell.                               *)
C4_NonNumericCellIsMissing ==
    pc = "filtered" =>
        \A c \in {"price", "rating", "reviews", "yearsexperience"} :
            Resolved(mapping, c) =>
                \A i \in DOMAIN rows :
                    NonNumeric(rows[i][mapping[c]]) =>
                        IF \E f \in BoundsOn(c) : Specified(entry, req[f])
                        THEN i \notin KeptIdx
                        ELSE i \in KeptIdx <=>
                                RowMask(entry, mapping, req,
                                        WithCell(rows, i, mapping[c], Num(0)), i)

\* C4's case: --price-min 0 on a dataset with a price cell "$90"
C4_Witness ==
    /\ pc = "filtered"
    /\ entry = "cli"
    /\ req.price_min = Num(0)
    /\ Resolved(mapping, "price")
    /\ \E i \in DOMAIN rows :
          rows[i][mapping["price"]].k = "str" /\ NonNumeric(rows[i][mapping["price"]])

----------------------------------------------------------------------------
(* Claims about the sort                                                   *)

\* the column a sort key stands for by the three rules (exact header, resolved
\* canonical field name, header under another casing), or Unresolved
KeyColumn(key) ==
    IF key \in Range(headers) THEN key
    ELSE IF HLower(key) \in Canon /\ Resolved(mapping, HLower(key))
    THEN mapping[HLower(key)]
    ELSE IF \E i \in DOMAIN headers : HLower(headers[i]) = HLower(key)
    THEN headers[Min({i \in DOMAIN headers : HLower(headers[i]) = HLower(key)})]
    ELSE Unresolved

ResolvedKeys == SelectIdx([i \in DOMAIN sortReq |-> KeyColumn(sortReq[i].name) # Unresolved],
                          Len(sortReq))

UnresolvedKeys == SelectIdx([i \in DOMAIN sortReq |-> KeyColumn(sortReq[i].name) = Unresolved],
                            Len(sortReq))

(* C5 (the claim as stated; the code violates it).  A sort request with a  *)
(* key that resolves to no header does not fail the run, in either entry   *)
(* point: one warning per such key names it, and the sort uses the other   *)
(* keys in their order, each with its own direction.                       *)
C5_UnresolvedKeyDroppedWithWarning ==
    (pc \in {"sorted", "failed"} /\ UnresolvedKeys # <<>>) =>
        /\ pc = "sorted"
        /\ warnings = [i \in DOMAIN UnresolvedKeys |-> sortReq[UnresolvedKeys[i]].name]
        /\ by = [i \in DOMAIN ResolvedKeys |-> KeyColumn(sortReq[ResolvedKeys[i]].name)]
        /\ ascending = [i \in DOMAIN ResolvedKeys |-> ~sortReq[ResolvedKeys[i]].desc]

\* two cells are the same value of a key
SameKey(a, b) == (a.k = "nan" /\ b.k = "nan") \/ (a.k = "num" /\ b.k = "num" /\ a.n = b.n)

(* C6 (the claim as stated; the code violates it).  The sort is one stable *)
(* multi-key sort: of two rows, the one that the first key telling them    *)
(* apart puts first (ascending or descending as asked) comes first, and    *)
(* rows equal on every key keep the order they had after filtering.  The   *)
(* place of an empty cell against a number is left to C7.                  *)
C6_StableLexicographicSort ==
    (pc = "sorted" /\ by # <<>>) =>
        \A i, j \in DOMAIN result : i < j =>
            LET a(k) == result[i].cells[by[k]]
                b(k) == result[j].cells[by[k]]
                diff == {k \in DOMAIN by : ~SameKey(a(k), b(k))}
            IN  IF diff = {} THEN result[i].idx < result[j].idx
                ELSE LET k == Min(diff)
                     IN  (a(k).k = "num" /\ b(k).k = "num") =>
                            IF ascending[k] THEN a(k).n < b(k).n ELSE a(k).n > b(k).n

\* a row with an empty cell in the first sort key and a row with a number in it
MissingAndPresent ==
    /\ \E i \in DOMAIN result : result[i].cells[by[1]].k = "nan"
    /\ \E i \in DOMAIN result : result[i].cells[by[1]].k = "num"

(* C7 (the claim as stated; the code violates it).  A row whose sort key   *)
(* is missing is the lowest: before every row with a value under an        *)
(* ascending key, and at the other end, after them, under a descending key.*)
C7_MissingSortsLowest ==
    (pc = "sorted" /\ by # <<>>) =>
        \A i, j \in DOMAIN result :
            (result[i].cells[by[1]].k = "nan" /\ result[j].cells[by[1]].k = "num")
                => IF ascending[1] THEN i < j ELSE j < i

(* C7 as amended.  A row whose value in a sort key is missing is placed    *)
(* after every row that has a value in that key and ties with it on the    *)
(* earlier keys, under an ascending and under a descending key alike:      *)
(* missing rows are at the same end, the last, for both directions.        *)
C7_MissingSortsLast ==
    (pc = "sorted" /\ by # <<>>) =>
        \A i, j \in DOMAIN result : \A k \in DOMAIN by :
            ( /\ \A l \in 1..(k - 1) :
                    SameKey(result[i].cells[by[l]], result[j].cells[by[l]])
              /\ result[i].cells[by[k]].k = "nan"
              /\ result[j].cells[by[k]].k = "num" )
                => j < i

\* C7's case: an ascending first key with empty cells and numbers in it
C7_Witness ==
    /\ pc = "sorted"
    /\ by # <<>>
    /\ ascending[1]
    /\ MissingAndPresent

----------------------------------------------------------------------------
(* Claims about the columns                                                *)

\* the place of header h in the output
Pos(h) == CHOOSE i \in DOMAIN outHeaders : outHeaders[i] = h

Mapped == {mapping[c] : c \in {c \in Canon : Resolved(mapping, c)}}

CanonIndex(c) == CHOOSE i \in DOMAIN CANON : CANON[i] = c

(* C8.  The output header list is a permutation of the input header list,  *)
(* each header once: the mapped headers of the resolved fields in the      *)
(* fixed enumeration order first, then the other headers in their original *)
(* relative order.                                                         *)
C8_OutputHeaderOrder ==
    pc = "done" =>
        /\ Len(outHeaders) = Len(headers)
        /\ Range(outHeaders) = Range(headers)
        /\ \A c, d \in Canon :
              (Resolved(mapping, c) /\ Resolved(mapping, d)
               /\ CanonIndex(c) < CanonIndex(d) /\ mapping[c] # mapping[d])
                  => Pos(mapping[c]) < Pos(mapping[d])
        /\ \A h \in Mapped : \A g \in Range(headers) \ Mapped : Pos(h) < Pos(g)
        /\ \A i, j \in DOMAIN headers :
              (i < j /\ headers[i] \notin Mapped /\ headers[j] \notin Mapped)
                  => Pos(headers[i]) < Pos(headers[j])

\* C8's case: mapped headers out of canonical order behind an unmapped one
C8_Witness ==
    /\ pc = "done"
    /\ run = 1
    /\ Len(headers) = 3
    /\ headers[1] \notin Mapped
    /\ headers[2] \in Mapped
    /\ headers[3] \in Mapped
    /\ outHeaders = <<headers[3], headers[2], headers[1]>>

(* C9.  autodetect_columns maps each canonical field to the header matched *)
(* by the first alias, in the field's alias order, that is the lower-case  *)
(* form of some header, the last such header in header order, and to       *)
(* unresolved when no alias matches; no header serves two fields.          *)
C9_AutodetectColumns ==
    pc # "loaded" =>
        /\ \A c \in Canon :
              LET hit == {i \in DOMAIN ALIASES[c] :
                            \E h \in Range(headers) : HLower(h) = ALIASES[c][i]}
              IN  IF hit = {} THEN mapping[c] = Unresolved
                  ELSE \E j \in DOMAIN headers :
                          /\ mapping[c] = headers[j]
                          /\ HLower(headers[j]) = ALIASES[c][Min(hit)]
                          /\ \A l \in DOMAIN headers :
                                HLower(headers[l]) = HLower(headers[j]) => l <= j
        /\ \A c, d \in Canon :
              (c # d /\ Resolved(mapping, c)) => mapping[c] # mapping[d]

\* C9's case: "price" and "Price" both present, and a later alias of the
\* same field ("rate" or "fee") as well
C9_Witness ==
    /\ pc = "resolved"
    /\ \E i, j \in DOMAIN headers :
          /\ i < j
          /\ HLower(headers[i]) = "price"
          /\ HLower(headers[j]) = "price"
          /\ mapping["price"] = headers[j]
    /\ \E i \in DOMAIN headers : HLower(headers[i]) \in {"rate", "fee"}

(* C10 (the claim as stated; the code violates it).  The pipeline is       *)
(* idempotent on its own output: the second run, with the same request,    *)
(* yields the same column mapping, the same rows in the same order and the *)
(* same header order as the first.                                         *)
C10_IdempotentOnOutput ==
    (run = 2 /\ pc = "done") =>
        /\ mapping = first.mapping
        /\ [i \in DOMAIN result |-> result[i].cells]
              = [i \in DOMAIN first.result |-> first.result[i].cells]
        /\ outHeaders = first.outHeaders

====
